---- MODULE Spec2Model ----
(***************************************************************************)
(* A model of bageri, a static-site build orchestrator.                    *)
(*                                                                         *)
(*   SpecDev    main() dispatch, dev(), watch_files() and its debounce     *)
(*              loop, and the rebuild tasks the watcher callback spawns.   *)
(*              Time is explicit (milliseconds, on a grid of TickMs).      *)
(*   SpecBuild  one invocation of build(): the pre-hook loop, each hook's  *)
(*              child process, its two detached reader threads and its two *)
(*              mutexes, and the page writes.                              *)
(*   SpecHtml   configuration deserialisation (serde defaults) and the     *)
(*              heads built by generate_html and process_html_page.        *)
(*   SpecEnv    escape_js and generate_env_object.                         *)
(*   SpecFind   find_html_files and glob_match.                            *)
(*   SpecBody   extract_body_content.                                      *)
(*   SpecDevFair, SpecBuildFair: SpecDev and SpecBuild with the fairness   *)
(*              of the runtime's and the threads' scheduling.              *)
(*                                                                         *)
(* The specifications share the variables; each leaves the other parts'    *)
(* variables at their idle values.                                         *)
(***************************************************************************)
EXTENDS Integers, Sequences, FiniteSets, TLC

VARIABLES
    \* ---- main.rs: main / dev ----
    cmd,            \* the parsed sub-command: "dev", "build" or "clean"
    mpc,            \* position of the main task
    proc,           \* "running", "exit_ok" or "exit_err" (unwrap of an Err)
    err,            \* the step whose error reached main ("none" when there is none)
    max_level,      \* log.rs LOG_LEVEL once main has set it from the -v count
    logged,         \* the kinds of log lines printed by the watcher and the rebuilds
    \* ---- watcher.rs: watch_files ----
    handle,         \* the RecommendedWatcher (owner of tx): "none", "held", "dropped"
    paths,          \* paths_to_watch: how many paths the for loop has yet to subscribe
    watching,       \* the watcher has at least one subscription
    subFailed,      \* history: a watcher.watch(..) call has failed
    wres,           \* history: what watch_files returned: "none", "ok", "err"
    chan,           \* the mpsc channel: items "ev" (Ok(event)) and "err" (Err(e))
    debounce_timer, \* Option<Instant>: <<>> is None, <<t>> is Some(t)
    wpc,            \* position of the debounce task
    got,            \* the result of the last rx.try_recv()
    wake,           \* the instant the current sleep ends
    now,            \* the clock, in milliseconds
    nsent,          \* history: how many items the notifier has sent
    arrivals,       \* history: the send time of every Ok(event), in order
    nrecv,          \* history: how many Ok(event) items the loop has received
    calls,          \* history: one record per callback() invocation
    \* ---- main.rs: build, spawn_output_reader, spawn_stderr_reader ----
    bpc,            \* position of build()
    nhooks,         \* config.pre_hook.len()
    hi,             \* the hook of the current iteration (i + 1); 0 before the loop
    spawned,        \* history: the hooks spawned, in spawn order
    hstatus,        \* per hook: "none", "running", "ok" (exit 0), "fail"
    pipe,           \* per hook and stream: the lines written and not yet read
    wend,           \* per hook and stream: some process holds the write end
    wrote,          \* history, per hook and stream: every text line written
    rpc,            \* per hook and stream: position of its reader thread
    rline,          \* per hook and stream: the line its reader thread holds
    all_lines,      \* per hook: Arc<Mutex<Vec<String>>>
    recent_lines,   \* per hook: Arc<Mutex<VecDeque<String>>>
    allLock,        \* per hook: holder of the all_lines mutex, or "free"
    recentLock,     \* per hook: holder of the recent_lines mutex, or "free"
    ringlog,        \* history, per hook: every line pushed to recent_lines
    display,        \* per hook: the lines of the progress bar's message
    reported,       \* what the failure report printed: [lines, raw], or None
    berr,           \* the error build returned ("none" when there is none)
    pagesLeft,      \* the pages not yet rendered
    written,        \* the output files written, in order
    \* ---- config.rs: deserialisation; html.rs: generate_html ----
    hpc,            \* "raw", "parsed", then "rendered" (generate_html) or
                    \* "static", "failed", "panicked" (process_html_page)
    rawDefaults,    \* the configuration file's top-level attributes
    rawPage,        \* the attributes of one entry of spa_pages in the file
    config,         \* Config.default_page_attributes once deserialised
    page,           \* SpaPage.attributes once deserialised
    html,           \* what generate_html put in the document's head
    \* ---- html.rs: the functions on strings ----
    ppc,            \* "in" before the call, "out" after it
    arg,            \* the arguments of the call
    ret             \* what the call returned

devVars == <<cmd, max_level, mpc, proc, err, logged, handle, paths, watching, subFailed, wres,
             chan, debounce_timer, wpc, got, wake, now, nsent, arrivals, nrecv, calls>>

buildVars == <<bpc, nhooks, hi, spawned, hstatus, pipe, wend, wrote, rpc, rline, all_lines,
               recent_lines, allLock, recentLock, ringlog, display, reported, berr,
               pagesLeft, written>>

htmlVars == <<hpc, rawDefaults, rawPage, config, page, html>>

pureVars == <<ppc, arg, ret>>

vars == <<devVars, buildVars, htmlVars, pureVars>>

\* What each part leaves unchanged.
outsideDev == <<buildVars, htmlVars, pureVars>>
outsideBuild == <<devVars, htmlVars, pureVars>>
outsideHtml == <<devVars, buildVars, pureVars>>
outsidePure == <<devVars, buildVars, htmlVars>>

\* ------------------------------------------------------------------ bounds
MaxTime == 600
TickMs == 100
LateMs == 1
MaxItems == 2
MaxLate == 1
MaxPaths == 2
MaxHooks == 2
MaxLines == 6
SeqLines == 1
MaxPages == 2
MaxBlank == 1

\* ------------------------------------------------------- program constants
DEBOUNCE_MS == 500
POLL_MS == 100
RECENT_CAP == 5
LEVEL_ERROR == 0
LEVEL_WARN == 1
LEVEL_INFO == 2

None == <<>>
Some(t) == <<t>>

\* ------------------------------------------------ the parts not in play
Streams == {"out", "err"}

IdleBuild ==
    /\ bpc = "idle"
    /\ nhooks = 0
    /\ hi = 0
    /\ spawned = <<>>
    /\ hstatus = <<>>
    /\ pipe = <<>>
    /\ wend = <<>>
    /\ wrote = <<>>
    /\ rpc = <<>>
    /\ rline = <<>>
    /\ all_lines = <<>>
    /\ recent_lines = <<>>
    /\ allLock = <<>>
    /\ recentLock = <<>>
    /\ ringlog = <<>>
    /\ display = <<>>
    /\ reported = None
    /\ berr = "none"
    /\ pagesLeft = {}
    /\ written = <<>>

IdleHtml ==
    /\ hpc = "idle"
    /\ rawDefaults = <<>>
    /\ rawPage = <<>>
    /\ config = <<>>
    /\ page = <<>>
    /\ html = <<>>

IdlePure ==
    /\ ppc = "idle"
    /\ arg = <<>>
    /\ ret = <<>>

IdleDev ==
    /\ cmd = "build"
    /\ max_level = LEVEL_WARN
    /\ mpc = "cmd_build"
    /\ proc = "running"
    /\ err = "none"
    /\ logged = {}
    /\ handle = "none"
    /\ paths = 0
    /\ watching = FALSE
    /\ subFailed = FALSE
    /\ wres = "none"
    /\ chan = <<>>
    /\ debounce_timer = None
    /\ wpc = "none"
    /\ got = "none"
    /\ wake = 0
    /\ now = 0
    /\ nsent = 0
    /\ arrivals = <<>>
    /\ nrecv = 0
    /\ calls = <<>>

\* ===================================================================== dev
\* cli.rs Args::log_level: no -v gives Level::Warn, -v gives Level::Info (-vv
\* and -vvv give Debug and Trace, which print what Info prints of the lines
\* followed here).
Levels == {LEVEL_WARN, LEVEL_INFO}

\* log.rs: fn should_log(level) -> bool { level <= max_level() }
should_log(level) == level <= max_level

\* log.rs: pub fn log(level, args) { if should_log(level) { eprintln!(..) } }
Log(level, line) == logged' = IF should_log(level) THEN logged \cup {line} ELSE logged

Running == {k \in 1..Len(calls) : calls[k].st = "running"}

InitDev ==
    /\ cmd \in {"dev", "build", "clean"}
    /\ max_level \in Levels
    /\ mpc = "main"
    /\ proc = "running"
    /\ err = "none"
    /\ logged = {}
    /\ handle = "none"
    /\ paths = 0
    /\ watching = FALSE
    /\ subFailed = FALSE
    /\ wres = "none"
    /\ chan = <<>>
    /\ debounce_timer = None
    /\ wpc = "none"
    /\ got = "none"
    /\ wake = 0
    /\ now = 0
    /\ nsent = 0
    /\ arrivals = <<>>
    /\ nrecv = 0
    /\ calls = <<>>
    /\ IdleBuild
    /\ IdleHtml
    /\ IdlePure

\* main: match args.command { Dev => dev(), Build => build(), Clean => clean() }
MainDispatch ==
    /\ proc = "running" /\ mpc = "main"
    /\ mpc' = IF cmd = "dev" THEN "dev_load" ELSE IF cmd = "build" THEN "cmd_build" ELSE "cmd_clean"
    /\ UNCHANGED <<cmd, max_level, proc, err, logged, handle, paths, watching, subFailed, wres,
                   chan, debounce_timer, wpc, got, wake, now, nsent, arrivals, nrecv, calls>>
    /\ UNCHANGED outsideDev

\* .unwrap() on the command's result: Ok(()) leaves main, Err(e) panics.
ExitWith(ok) == IF ok THEN "exit_ok" ELSE "exit_err"

\* Command::Build => build().await, then .unwrap()
CmdBuild(ok) ==
    /\ proc = "running" /\ mpc = "cmd_build"
    /\ mpc' = "returned"
    /\ proc' = ExitWith(ok)
    /\ err' = IF ok THEN "none" ELSE "build"
    /\ UNCHANGED <<cmd, max_level, logged, handle, paths, watching, subFailed, wres,
                   chan, debounce_timer, wpc, got, wake, now, nsent, arrivals, nrecv, calls>>
    /\ UNCHANGED outsideDev

\* Command::Clean => clean().await, then .unwrap()
CmdClean(ok) ==
    /\ proc = "running" /\ mpc = "cmd_clean"
    /\ mpc' = "returned"
    /\ proc' = ExitWith(ok)
    /\ err' = IF ok THEN "none" ELSE "clean"
    /\ UNCHANGED <<cmd, max_level, logged, handle, paths, watching, subFailed, wres,
                   chan, debounce_timer, wpc, got, wake, now, nsent, arrivals, nrecv, calls>>
    /\ UNCHANGED outsideDev

\* A `?` in dev on an Err: dev returns it, and its locals are dropped.
DevFails(why) ==
    /\ mpc' = "returned_err"
    /\ err' = why

\* dev: Config::load().await.wrap_err("Failed to load configuration")?
DevLoadConfig(ok) ==
    /\ proc = "running" /\ mpc = "dev_load"
    /\ IF ok THEN mpc' = "dev_build" /\ err' = err
             ELSE DevFails("config")
    /\ UNCHANGED <<cmd, max_level, proc, logged, handle, paths, watching, subFailed, wres,
                   chan, debounce_timer, wpc, got, wake, now, nsent, arrivals, nrecv, calls>>
    /\ UNCHANGED outsideDev

\* dev: build().await?  (the initial build)
AfterInitialBuild(ok) ==
    IF ok THEN mpc' = "dev_watch" /\ err' = err
          ELSE DevFails("initial_build")

DevInitialBuild(ok) ==
    /\ proc = "running" /\ mpc = "dev_build"
    /\ AfterInitialBuild(ok)
    /\ UNCHANGED <<cmd, max_level, proc, logged, handle, paths, watching, subFailed, wres,
                   chan, debounce_timer, wpc, got, wake, now, nsent, arrivals, nrecv, calls>>
    /\ UNCHANGED outsideDev

\* watch_files: mpsc::channel(), RecommendedWatcher::new(..)?, then the glob
\* expansion (glob::glob(..)? per pattern) that fills paths_to_watch with n paths.
\* Either `?` returns the error, which dev's `?` returns in turn: the first
\* before there is a watcher, the second with the watcher created, which is
\* dropped (and tx with it) as watch_files returns.
WatchFilesBegin(created, globbed, n) ==
    /\ proc = "running" /\ mpc = "dev_watch"
    /\ IF created /\ globbed
       THEN /\ handle' = "held"
            /\ paths' = n
            /\ mpc' = "watch_paths"
            /\ UNCHANGED <<err, wres>>
       ELSE /\ handle' = IF created THEN "dropped" ELSE "none"
            /\ paths' = 0
            /\ wres' = "err"
            /\ DevFails("watcher")
    /\ UNCHANGED <<cmd, max_level, proc, logged, watching, subFailed,
                   chan, debounce_timer, wpc, got, wake, now, nsent, arrivals, nrecv, calls>>
    /\ UNCHANGED outsideDev

\* watcher.watch(&path, Recursive).wrap_err_with(..)?  in the for loop: on Err
\* watch_files returns the error (the local watcher, owner of tx, is dropped),
\* and dev's `?` returns it in turn.
AfterWatchPath(ok) ==
    /\ subFailed' = (subFailed \/ ~ok)
    /\ IF ok
       THEN /\ watching' = TRUE
            /\ paths' = paths - 1
            /\ UNCHANGED <<handle, wres, mpc, err, logged>>
       ELSE /\ handle' = "dropped"
            /\ wres' = "err"
            /\ DevFails("watcher")
            /\ UNCHANGED <<watching, paths, logged>>

\* for path in paths_to_watch { info!("Watching path.."); watcher.watch(..)..? }
WatchPath(ok) ==
    /\ proc = "running" /\ mpc = "watch_paths" /\ paths > 0
    /\ AfterWatchPath(ok)
    /\ UNCHANGED <<cmd, max_level, proc, chan, debounce_timer, wpc, got, wake, now, nsent,
                   arrivals, nrecv, calls>>
    /\ UNCHANGED outsideDev

\* tokio::spawn(async move { let mut debounce_timer = None; loop {..} }); Ok(watcher)
WatchSpawnLoop ==
    /\ proc = "running" /\ mpc = "watch_paths" /\ paths = 0
    /\ wpc' = "recv"
    /\ debounce_timer' = None
    /\ wres' = "ok"
    /\ mpc' = "dev_bind"
    /\ UNCHANGED <<cmd, max_level, proc, err, logged, handle, paths, watching, subFailed,
                   chan, got, wake, now, nsent, arrivals, nrecv, calls>>
    /\ UNCHANGED outsideDev

\* TcpListener::bind("127.0.0.1:3000").await.wrap_err("Failed to bind to address")?
DevBind(ok) ==
    /\ proc = "running" /\ mpc = "dev_bind"
    /\ IF ok THEN mpc' = "serving" /\ UNCHANGED <<err, handle>>
             ELSE DevFails("bind") /\ handle' = "dropped"
    /\ UNCHANGED <<cmd, max_level, proc, logged, paths, watching, subFailed, wres,
                   chan, debounce_timer, wpc, got, wake, now, nsent, arrivals, nrecv, calls>>
    /\ UNCHANGED outsideDev

\* axum::serve(listener, app).await.wrap_err("Server error")?; Ok(())
\* Either way dev returns and _watcher is dropped.
DevServeEnds(ok) ==
    /\ proc = "running" /\ mpc = "serving"
    /\ IF ok THEN mpc' = "returned_ok" /\ err' = err
             ELSE DevFails("serve")
    /\ handle' = "dropped"
    /\ UNCHANGED <<cmd, max_level, proc, logged, paths, watching, subFailed, wres,
                   chan, debounce_timer, wpc, got, wake, now, nsent, arrivals, nrecv, calls>>
    /\ UNCHANGED outsideDev

\* main: the value of dev() reaches .unwrap() and the process ends; its tasks,
\* the channel and the timer go with it.
MainExit ==
    /\ proc = "running" /\ mpc \in {"returned_ok", "returned_err"}
    /\ proc' = ExitWith(mpc = "returned_ok")
    /\ mpc' = "returned"
    /\ wpc' = IF wpc = "none" THEN "none" ELSE "dead"
    /\ chan' = <<>>
    /\ debounce_timer' = None
    /\ got' = "none"
    /\ wake' = 0
    /\ UNCHANGED <<cmd, max_level, err, logged, handle, paths, watching, subFailed, wres,
                   now, nsent, arrivals, nrecv, calls>>
    /\ UNCHANGED outsideDev

\* What may still be delivered: MaxItems items, events or errors, up to
\* MaxTime; and MaxLate more events at any time after that many rebuilds have
\* been started.
ItemCap ==
    IF nsent < MaxItems /\ now <= MaxTime THEN {"ev", "err"}
    ELSE IF nsent < MaxItems + MaxLate /\ Len(calls) >= MaxItems THEN {"ev"}
    ELSE {}

\* The notifier thread's handler: tx.send(res), res being Ok(event) or Err(e).
\* The send time of an Ok(event) is the time the change is delivered.
Deliver(item) ==
    /\ proc = "running" /\ handle = "held" /\ watching
    /\ item \in ItemCap
    /\ chan' = Append(chan, item)
    /\ nsent' = nsent + 1
    /\ arrivals' = IF item = "ev" THEN Append(arrivals, now) ELSE arrivals
    /\ UNCHANGED <<cmd, max_level, mpc, proc, err, logged, handle, paths, watching, subFailed, wres,
                   debounce_timer, wpc, got, wake, now, nrecv, calls>>
    /\ UNCHANGED outsideDev

TryRecvNeverDisconnected ==
    IF chan # <<>> THEN Head(chan) ELSE "empty"

\* rx.try_recv(): the oldest queued item; else Disconnected when the sender is
\* gone; else Empty.
TryRecv ==
    IF chan # <<>> THEN Head(chan)
    ELSE IF handle = "dropped" THEN "disc"
    ELSE "empty"

LoopRecv ==
    /\ proc = "running" /\ wpc = "recv"
    /\ got' = TryRecv
    /\ chan' = IF chan # <<>> THEN Tail(chan) ELSE chan
    /\ wpc' = "handle"
    /\ UNCHANGED <<cmd, max_level, mpc, proc, err, logged, handle, paths, watching, subFailed, wres,
                   debounce_timer, wake, now, nsent, arrivals, nrecv, calls>>
    /\ UNCHANGED outsideDev

OnEventKeepsFirstStamp ==
    /\ debounce_timer' = IF debounce_timer = None THEN Some(now) ELSE debounce_timer
    /\ nrecv' = nrecv + 1
    /\ wpc' = "recv"
    /\ UNCHANGED <<logged, wake, calls>>

\* Ok(Ok(_event)) => debounce_timer = Some(Instant::now())
OnEvent ==
    /\ debounce_timer' = Some(now)
    /\ nrecv' = nrecv + 1
    /\ wpc' = "recv"
    /\ UNCHANGED <<logged, wake, calls>>

OnErrorStampsTimer ==
    /\ logged' = logged \cup {"Watch error"}
    /\ debounce_timer' = Some(now)
    /\ wpc' = "recv"
    /\ UNCHANGED <<nrecv, wake, calls>>

\* Ok(Err(e)) => eprintln!("Watch error: {e}")
OnError ==
    /\ logged' = logged \cup {"Watch error"}
    /\ wpc' = "recv"
    /\ UNCHANGED <<debounce_timer, nrecv, wake, calls>>

\* timer.elapsed(): what the clock can read. `now` is on the grid of TickMs;
\* a sleep ends a little after its deadline and the clock is read a little
\* after the instant of the grid, so a reading is the difference on the grid
\* or up to LateMs more.
Elapsed(timer) == {now - timer[1] + late : late \in 0..LateMs}

ShouldFireNoWait(timer, elapsed) == timer # None

ShouldFireInverted(timer, elapsed) == timer # None /\ elapsed < DEBOUNCE_MS

\* if let Some(timer) = debounce_timer { if timer.elapsed() > 500 ms {..} }
ShouldFire(timer, elapsed) == timer # None /\ elapsed > DEBOUNCE_MS

\* The outcomes of the check of the debounce timestamp.
Fires(timer) ==
    IF timer = None THEN {FALSE}
    ELSE {ShouldFire(timer, elapsed) : elapsed \in Elapsed(timer)}

CallbackNeverInvoked ==
    /\ calls' = calls
    /\ Log(LEVEL_INFO, "Files changed")

\* dev's closure: info!("Files changed, rebuilding..."); tokio::spawn(the rebuild)
Callback ==
    /\ calls' = Append(calls, [t |-> now, nev |-> nrecv, st |-> "running"])
    /\ Log(LEVEL_INFO, "Files changed")

OnEmptyKeepsTimer ==
    /\ \E fire \in Fires(debounce_timer) :
          IF fire
          THEN Callback /\ debounce_timer' = debounce_timer
          ELSE UNCHANGED <<calls, logged, debounce_timer>>
    /\ wake' = now + POLL_MS
    /\ wpc' = "sleep"
    /\ UNCHANGED nrecv

\* Err(TryRecvError::Empty) => { if .. { callback(); debounce_timer = None; }
\*                                sleep(100 ms).await }
OnEmpty ==
    /\ \E fire \in Fires(debounce_timer) :
          IF fire
          THEN /\ Callback
               /\ debounce_timer' = None
          ELSE UNCHANGED <<calls, logged, debounce_timer>>
    /\ wake' = now + POLL_MS
    /\ wpc' = "sleep"
    /\ UNCHANGED nrecv

\* Err(TryRecvError::Disconnected) => break
OnDisconnected ==
    /\ wpc' = "done"
    /\ UNCHANGED <<logged, debounce_timer, nrecv, wake, calls>>

LoopHandle ==
    /\ proc = "running" /\ wpc = "handle"
    /\ CASE got = "ev" -> OnEvent
         [] got = "err" -> OnError
         [] got = "empty" -> OnEmpty
         [] got = "disc" -> OnDisconnected
    /\ got' = "none"
    /\ UNCHANGED <<cmd, max_level, mpc, proc, err, handle, paths, watching, subFailed, wres,
                   chan, now, nsent, arrivals>>
    /\ UNCHANGED outsideDev

\* tokio::time::sleep(100 ms) completes: not before its deadline.
LoopWake ==
    /\ proc = "running" /\ wpc = "sleep"
    /\ now >= wake
    /\ wpc' = "recv"
    /\ wake' = 0
    /\ UNCHANGED <<cmd, max_level, mpc, proc, err, logged, handle, paths, watching, subFailed, wres,
                   chan, debounce_timer, got, now, nsent, arrivals, nrecv, calls>>
    /\ UNCHANGED outsideDev

RebuildFailureFatal(ok) ==
    /\ IF ok THEN Log(LEVEL_INFO, "Rebuild completed")
             ELSE Log(LEVEL_ERROR, "Rebuild failed")
    /\ proc' = IF ok THEN proc ELSE "exit_err"
    /\ err' = IF ok THEN err ELSE "rebuild"

RebuildFailureAborts(ok) ==
    /\ IF ok THEN Log(LEVEL_INFO, "Rebuild completed")
             ELSE Log(LEVEL_ERROR, "Rebuild failed")
    /\ proc' = IF ok THEN proc ELSE "aborted"
    /\ err' = err

\* if let Err(e) = build().await { error!("Rebuild failed: {}", e) }
\* else { info!("Rebuild completed") }
AfterRebuild(ok) ==
    /\ IF ok THEN Log(LEVEL_INFO, "Rebuild completed")
             ELSE Log(LEVEL_ERROR, "Rebuild failed")
    /\ UNCHANGED <<proc, err>>

\* The rebuild task spawned by the callback ends.
RebuildFinish(k, ok) ==
    /\ proc = "running"
    /\ k \in Running
    /\ calls' = [calls EXCEPT ![k].st = IF ok THEN "ok" ELSE "err"]
    /\ AfterRebuild(ok)
    /\ UNCHANGED <<cmd, max_level, mpc, handle, paths, watching, subFailed, wres,
                   chan, debounce_timer, wpc, got, wake, now, nsent, arrivals, nrecv>>
    /\ UNCHANGED outsideDev

\* Work the debounce task still has to do.
Pending == wpc \in {"recv", "handle", "sleep"} /\ (debounce_timer # None \/ chan # <<>>)

\* Time passes at the await points: while the loop sleeps, whatever dev is
\* doing (a sleep ends at its deadline or any time later: the loop shares its
\* worker threads with the rebuilds, which block them), during dev's start-up
\* before the loop exists, and while a rebuild outlives the loop. The
\* synchronous steps of the loop (try_recv, the check, callback()) take less
\* than a tick, which Elapsed covers. Past MaxTime only the sleeps of a loop
\* that still has work to do run to their deadlines.
Tick ==
    /\ proc = "running"
    /\ \/ wpc = "sleep"
       \/ wpc = "none" /\ handle = "held"
       \/ wpc = "done" /\ Running # {}
    /\ now < MaxTime \/ (Pending /\ wpc = "sleep" /\ now < wake)
    /\ now' = now + TickMs
    /\ UNCHANGED <<cmd, max_level, mpc, proc, err, logged, handle, paths, watching, subFailed, wres,
                   chan, debounce_timer, wpc, got, wake, nsent, arrivals, nrecv, calls>>
    /\ UNCHANGED outsideDev

NextDev ==
    \/ MainDispatch
    \/ \E ok \in BOOLEAN : CmdBuild(ok)
    \/ \E ok \in BOOLEAN : CmdClean(ok)
    \/ \E ok \in BOOLEAN : DevLoadConfig(ok)
    \/ \E ok \in BOOLEAN : DevInitialBuild(ok)
    \/ \E created \in BOOLEAN, globbed \in BOOLEAN, n \in 0..MaxPaths :
          WatchFilesBegin(created, globbed, n)
    \/ \E ok \in BOOLEAN : WatchPath(ok)
    \/ WatchSpawnLoop
    \/ \E ok \in BOOLEAN : DevBind(ok)
    \/ \E ok \in BOOLEAN : DevServeEnds(ok)
    \/ MainExit
    \/ \E item \in {"ev", "err"} : Deliver(item)
    \/ LoopRecv
    \/ LoopHandle
    \/ LoopWake
    \/ \E k \in 1..(MaxItems + MaxLate), ok \in BOOLEAN : RebuildFinish(k, ok)
    \/ Tick

SpecDev == InitDev /\ [][NextDev]_vars

\* The steps of dev between the first subscription and serving: each of these
\* calls returns.
DevStartup ==
    \/ \E ok \in BOOLEAN : WatchPath(ok)
    \/ WatchSpawnLoop
    \/ \E ok \in BOOLEAN : DevBind(ok)

\* The loop task is polled, and its sleep ends, when a worker of the runtime
\* is free. A rebuild task keeps its worker while it waits for a hook
\* (child.wait_with_output() in build is a blocking call), so the loop is sure
\* to take its next step only while no rebuild is running.
LoopRuns == (LoopRecv \/ LoopHandle \/ LoopWake) /\ Running = {}

\* dev's own calls return (main's future runs on the thread that entered the
\* runtime, not on a worker), the loop runs while the workers are free, and
\* time passes. Nothing makes a rebuild end: hooks have no timeout.
SpecDevFair ==
    /\ SpecDev
    /\ WF_vars(DevStartup)
    /\ WF_vars(LoopRuns)
    /\ WF_vars(Tick)

\* =================================================================== build
Hooks == 1..nhooks

\* A line of output: the n-th text line of stream s, a line that is empty once
\* trimmed, or a line that is not valid UTF-8.
Line(s, n) == [src |-> s, n |-> n]
BlankLine == [src |-> "blank", n |-> 0]
BadLine == [src |-> "bad", n |-> 0]

\* The output explored per build: long outputs (enough to overflow the ring
\* buffer) for a build of one hook, written while the hook runs with both
\* streams open, of which stderr carries a short part; short ones when hooks
\* follow one another, and from the processes a hook leaves behind.
LineCap(h, s) ==
    IF nhooks = 1 /\ hstatus[h] = "running" /\ (\A t \in Streams : wend[h][t])
       /\ (s = "out" \/ Len(wrote[h]["err"]) < SeqLines)
    THEN MaxLines ELSE SeqLines

\* The text lines hook h has written so far, and those of hooks 1..h.
Written(h) == Len(wrote[h]["out"]) + Len(wrote[h]["err"])

RECURSIVE WrittenUpTo(_)
WrittenUpTo(h) == IF h = 0 THEN 0 ELSE Written(h) + WrittenUpTo(h - 1)

\* Lines that are not text are explored among the first lines of the output
\* of a build of one hook.
BlankCap == IF nhooks = 1 /\ WrittenUpTo(nhooks) <= SeqLines THEN MaxBlank ELSE 0

\* The lines that are not text waiting in the pipes.
QueuedBlanks ==
    Cardinality({<<h, t, i>> \in Hooks \X Streams \X (1..(MaxLines + MaxBlank)) :
                    i <= Len(pipe[h][t]) /\ pipe[h][t][i] \in {BlankLine, BadLine}})

\* The pages explored: up to MaxPages after hooks with short outputs, none
\* after a hook with a long one.
PageCap == IF WrittenUpTo(nhooks) <= SeqLines THEN MaxPages ELSE 0

\* One value per hook, and one per stream of each hook.
PerHook(v) == [h \in 1..nhooks |-> v]
PerStream(v) == [h \in 1..nhooks |-> [s \in Streams |-> v]]

InitBuild ==
    /\ IdleDev
    /\ IdleHtml
    /\ IdlePure
    /\ bpc = "load"
    /\ nhooks \in 0..MaxHooks
    /\ hi = 0
    /\ spawned = <<>>
    /\ hstatus = PerHook("none")
    /\ pipe = PerStream(<<>>)
    /\ wend = PerStream(FALSE)
    /\ wrote = PerStream(<<>>)
    /\ rpc = PerStream("none")
    /\ rline = PerStream(None)
    /\ all_lines = PerHook(<<>>)
    /\ recent_lines = PerHook(<<>>)
    /\ allLock = PerHook("free")
    /\ recentLock = PerHook("free")
    /\ ringlog = PerHook(<<>>)
    /\ display = PerHook(<<>>)
    /\ reported = None
    /\ berr = "none"
    /\ pagesLeft = {}
    /\ written = <<>>

BuildFailsUnlessSpawn(why) ==
    /\ bpc' = IF why = "spawn" THEN "hooks" ELSE "err"
    /\ berr' = why

\* A `?` in build on an Err: build returns it.
BuildFails(why) ==
    /\ bpc' = "err"
    /\ berr' = why

\* config::Config::load().await.wrap_err("Failed to load configuration")?
BuildLoadConfig(ok) ==
    /\ bpc = "load"
    /\ IF ok THEN bpc' = "mkdir" /\ berr' = berr
             ELSE BuildFails("config")
    /\ UNCHANGED <<nhooks, hi, spawned, hstatus, pipe, wend, wrote, rpc, rline, all_lines,
                   recent_lines, allLock, recentLock, ringlog, display, reported,
                   pagesLeft, written>>
    /\ UNCHANGED outsideBuild

\* tokio::fs::create_dir_all(&config.output_dir).await.wrap_err(..)?
BuildMkdir(ok) ==
    /\ bpc = "mkdir"
    /\ IF ok THEN bpc' = "hooks" /\ berr' = berr
             ELSE BuildFails("mkdir")
    /\ UNCHANGED <<nhooks, hi, spawned, hstatus, pipe, wend, wrote, rpc, rline, all_lines,
                   recent_lines, allLock, recentLock, ringlog, display, reported,
                   pagesLeft, written>>
    /\ UNCHANGED outsideBuild

\* for (i, cmd) in config.pre_hook.iter().enumerate(): the next hook.
BuildNextHook ==
    /\ bpc = "hooks"
    /\ hi < nhooks
    /\ hi' = hi + 1
    /\ bpc' = "spawn"
    /\ UNCHANGED <<nhooks, spawned, hstatus, pipe, wend, wrote, rpc, rline, all_lines,
                   recent_lines, allLock, recentLock, ringlog, display, reported, berr,
                   pagesLeft, written>>
    /\ UNCHANGED outsideBuild

\* The hook loop is over; for (page_name, page) in &config.pages begins: the
\* configuration's pages (n of them) are read here for the first time.
BuildHooksDone(n) ==
    /\ bpc = "hooks"
    /\ hi = nhooks
    /\ n <= PageCap
    /\ bpc' = "pages"
    /\ pagesLeft' = 1..n
    /\ UNCHANGED <<nhooks, hi, spawned, hstatus, pipe, wend, wrote, rpc, rline, all_lines,
                   recent_lines, allLock, recentLock, ringlog, display, reported, berr,
                   written>>
    /\ UNCHANGED outsideBuild

\* Command::new("sh")...stdout(Stdio::piped()).stderr(Stdio::piped()).spawn()
\* .wrap_err_with(..)?; then the hook's two fresh buffers and its two reader
\* threads (child.stderr.take(), child.stdout.take()). The child holds the
\* write ends of the two pipes.
BuildSpawn(ok) ==
    /\ bpc = "spawn"
    /\ IF ok
       THEN /\ spawned' = Append(spawned, hi)
            /\ hstatus' = [hstatus EXCEPT ![hi] = "running"]
            /\ wend' = [wend EXCEPT ![hi] = [s \in Streams |-> TRUE]]
            /\ rpc' = [rpc EXCEPT ![hi] = [s \in Streams |-> "read"]]
            /\ bpc' = "wait"
            /\ berr' = berr
       ELSE /\ BuildFails("spawn")
            /\ UNCHANGED <<spawned, hstatus, wend, rpc>>
    /\ UNCHANGED <<nhooks, hi, pipe, wrote, rline, all_lines,
                   recent_lines, allLock, recentLock, ringlog, display, reported,
                   pagesLeft, written>>
    /\ UNCHANGED outsideBuild

\* The hooks spawned so far.
Spawned == {h \in Hooks : hstatus[h] # "none"}

\* A process that holds the write end of a stream of hook h (the hook, or a
\* process it started, which can outlive it) writes one more line: a text
\* line, a blank line, or bytes that are not valid UTF-8. The history `wrote`
\* keeps the text lines. A stream whose reader thread has ended is closed at
\* its read end and takes no more lines.
ChildWrite(h, s, kind) ==
    /\ proc = "running"
    /\ h \in Spawned
    /\ wend[h][s]
    /\ rpc[h][s] # "done"
    /\ IF kind = "text"
       THEN /\ WrittenUpTo(nhooks) < LineCap(h, s)
            /\ pipe' = [pipe EXCEPT ![h][s] = Append(@, Line(s, Len(wrote[h][s]) + 1))]
            /\ wrote' = [wrote EXCEPT ![h][s] = Append(@, Line(s, Len(wrote[h][s]) + 1))]
       ELSE /\ QueuedBlanks < BlankCap
            /\ pipe' = [pipe EXCEPT ![h][s] =
                           Append(@, IF kind = "blank" THEN BlankLine ELSE BadLine)]
            /\ wrote' = wrote
    /\ UNCHANGED <<bpc, nhooks, hi, spawned, hstatus, wend, rpc, rline, all_lines,
                   recent_lines, allLock, recentLock, ringlog, display, reported, berr,
                   pagesLeft, written>>
    /\ UNCHANGED outsideBuild

\* The last holder of the write end of a stream lets go of it: the hook
\* closes the stream while it runs (exec 1>&-), or the hook and the processes
\* it started have exited.
CloseStream(h, s) ==
    /\ h \in Spawned
    /\ wend[h][s]
    /\ wend' = [wend EXCEPT ![h][s] = FALSE]
    /\ UNCHANGED <<bpc, nhooks, hi, spawned, hstatus, pipe, wrote, rpc, rline, all_lines,
                   recent_lines, allLock, recentLock, ringlog, display, reported, berr,
                   pagesLeft, written>>
    /\ UNCHANGED outsideBuild

\* The hook (sh) exits. The pipes stay open for as long as a process the hook
\* started holds their write ends.
ChildExit(ok) ==
    /\ hi \in Hooks /\ hstatus[hi] = "running"
    /\ hstatus' = [hstatus EXCEPT ![hi] = IF ok THEN "ok" ELSE "fail"]
    /\ UNCHANGED <<bpc, nhooks, hi, spawned, pipe, wend, wrote, rpc, rline, all_lines,
                   recent_lines, allLock, recentLock, ringlog, display, reported, berr,
                   pagesLeft, written>>
    /\ UNCHANGED outsideBuild

\* for line in buf_reader.lines().map_while(Result::ok): the next line; the
\* loop ends at the end of the stream (nothing left to read and every write
\* end closed, whether or not the hook has exited) and at the first line
\* lines() gives an
\* Err for (bytes that are not valid UTF-8): the thread ends, its BufReader
\* is dropped and what the stream still held is never read;
\* if !line.trim().is_empty() { .. }
ReaderRead(h, s) ==
    /\ proc = "running"
    /\ h \in Hooks
    /\ rpc[h][s] = "read"
    /\ IF pipe[h][s] # <<>>
       THEN /\ pipe' = [pipe EXCEPT ![h][s] =
                           IF Head(pipe[h][s]) = BadLine THEN <<>> ELSE Tail(@)]
            /\ CASE Head(pipe[h][s]) = BlankLine -> UNCHANGED <<rpc, rline>>
                 [] Head(pipe[h][s]) = BadLine ->
                        /\ rpc' = [rpc EXCEPT ![h][s] = "done"]
                        /\ UNCHANGED rline
                 [] OTHER ->
                        /\ rline' = [rline EXCEPT ![h][s] = Some(Head(pipe[h][s]))]
                        /\ rpc' = [rpc EXCEPT ![h][s] = "push_all"]
       ELSE /\ ~wend[h][s]
            /\ rpc' = [rpc EXCEPT ![h][s] = "done"]
            /\ UNCHANGED <<pipe, rline>>
    /\ UNCHANGED <<bpc, nhooks, hi, spawned, hstatus, wend, wrote, all_lines,
                   recent_lines, allLock, recentLock, ringlog, display, reported, berr,
                   pagesLeft, written>>
    /\ UNCHANGED outsideBuild

ReaderPushAllKeepsGuard(h, s) ==
    /\ proc = "running"
    /\ h \in Hooks
    /\ rpc[h][s] = "push_all"
    /\ allLock[h] = "free"
    /\ allLock' = [allLock EXCEPT ![h] = s]
    /\ all_lines' = [all_lines EXCEPT ![h] = Append(@, rline[h][s][1])]
    /\ rpc' = [rpc EXCEPT ![h][s] = "lock_recent"]
    /\ UNCHANGED <<bpc, nhooks, hi, spawned, hstatus, pipe, wend, wrote, rline,
                   recent_lines, recentLock, ringlog, display, reported, berr,
                   pagesLeft, written>>
    /\ UNCHANGED outsideBuild

\* all_lines.lock().unwrap().push(line.clone()): waits for the mutex, pushes,
\* and drops the temporary guard with the statement.
ReaderPushAll(h, s) ==
    /\ proc = "running"
    /\ h \in Hooks
    /\ rpc[h][s] = "push_all"
    /\ allLock[h] = "free"
    /\ all_lines' = [all_lines EXCEPT ![h] = Append(@, rline[h][s][1])]
    /\ rpc' = [rpc EXCEPT ![h][s] = "lock_recent"]
    /\ UNCHANGED <<bpc, nhooks, hi, spawned, hstatus, pipe, wend, wrote, rline,
                   recent_lines, allLock, recentLock, ringlog, display, reported, berr,
                   pagesLeft, written>>
    /\ UNCHANGED outsideBuild

EvictedWhenOver(q) == IF Len(q) > RECENT_CAP THEN Tail(q) ELSE q

\* if lines.len() >= 5 { lines.pop_front(); }
Evicted(q) == IF Len(q) >= RECENT_CAP THEN Tail(q) ELSE q

\* let mut lines = recent_lines.lock().unwrap(); then the eviction.
ReaderLockRecent(h, s) ==
    /\ proc = "running"
    /\ h \in Hooks
    /\ rpc[h][s] = "lock_recent"
    /\ recentLock[h] = "free"
    /\ recentLock' = [recentLock EXCEPT ![h] = s]
    /\ recent_lines' = [recent_lines EXCEPT ![h] = Evicted(@)]
    /\ rpc' = [rpc EXCEPT ![h][s] = "push_recent"]
    /\ UNCHANGED <<bpc, nhooks, hi, spawned, hstatus, pipe, wend, wrote, rline, all_lines,
                   allLock, ringlog, display, reported, berr,
                   pagesLeft, written>>
    /\ UNCHANGED outsideBuild

\* display_lines: one entry per line of the ring buffer (each cut to 80
\* characters; line widths are not modelled).
DisplayLines(q) == [i \in 1..Len(q) |-> q[i]]

\* lines.push_back(line.clone()); pb.set_message(display_text), on the hook's
\* progress bar whether or not build has finished it; the guard `lines` is
\* dropped at the end of the block.
ReaderPushRecent(h, s) ==
    /\ proc = "running"
    /\ h \in Hooks
    /\ rpc[h][s] = "push_recent"
    /\ recent_lines' = [recent_lines EXCEPT ![h] = Append(@, rline[h][s][1])]
    /\ ringlog' = [ringlog EXCEPT ![h] = Append(@, rline[h][s][1])]
    /\ display' = [display EXCEPT ![h] = DisplayLines(recent_lines'[h])]
    /\ recentLock' = [recentLock EXCEPT ![h] = "free"]
    /\ rline' = [rline EXCEPT ![h][s] = None]
    /\ rpc' = [rpc EXCEPT ![h][s] = "read"]
    /\ UNCHANGED <<bpc, nhooks, hi, spawned, hstatus, pipe, wend, wrote, all_lines,
                   allLock, reported, berr, pagesLeft, written>>
    /\ UNCHANGED outsideBuild

\* child.wait_with_output().wrap_err_with(..)?: returns once the child has
\* exited. It waits for no reader thread.
BuildWait(ok) ==
    /\ bpc = "wait"
    /\ hstatus[hi] \in {"ok", "fail"}
    /\ IF ok THEN bpc' = "check" /\ berr' = berr
             ELSE BuildFails("wait")
    /\ UNCHANGED <<nhooks, hi, spawned, hstatus, pipe, wend, wrote, rpc, rline, all_lines,
                   recent_lines, allLock, recentLock, ringlog, display, reported,
                   pagesLeft, written>>
    /\ UNCHANGED outsideBuild

\* output.stdout / output.stderr: child.stdout and child.stderr were taken for
\* the reader threads, so wait_with_output has no stream left to collect.
WaitOutput(s) == <<>>

StatusIgnored(h) == TRUE

\* output.status.success()
StatusSuccess(h) == hstatus[h] = "ok"

\* if !output.status.success() { pb.finish_with_message("Hook i/n failed");
\* .. } else the iteration ends with pb.finish_with_message("Hook i/n
\* completed"). Either message replaces the lines shown. The reader threads
\* are detached: they go on with the buffers and the progress bar of their
\* hook.
BuildCheck ==
    /\ bpc = "check"
    /\ display' = [display EXCEPT ![hi] = <<>>]
    /\ bpc' = IF StatusSuccess(hi) THEN "hooks" ELSE "lock"
    /\ UNCHANGED <<nhooks, hi, spawned, hstatus, pipe, wend, wrote, rpc, rline, all_lines,
                   recent_lines, allLock, recentLock, ringlog, reported, berr,
                   pagesLeft, written>>
    /\ UNCHANGED outsideBuild

\* let lines = all_lines.lock().unwrap(): the next statement of the failure
\* branch; it waits for a reader that holds the mutex.
BuildLockAll ==
    /\ bpc = "lock"
    /\ allLock[hi] = "free"
    /\ allLock' = [allLock EXCEPT ![hi] = "build"]
    /\ bpc' = "report"
    /\ UNCHANGED <<nhooks, hi, spawned, hstatus, pipe, wend, wrote, rpc, rline, all_lines,
                   recent_lines, recentLock, ringlog, display, reported, berr,
                   pagesLeft, written>>
    /\ UNCHANGED outsideBuild

\* error!("Hook output:\n{}", lines.join("\n")) when lines is not empty;
\* error!("Hook stderr: ..") / error!("Hook stdout: ..") when the captured
\* bytes are not empty; return Err(..), which drops the guard.
BuildReport ==
    /\ bpc = "report"
    /\ reported' = Some([lines |-> all_lines[hi],
                         raw |-> {s \in Streams : WaitOutput(s) # <<>>}])
    /\ allLock' = [allLock EXCEPT ![hi] = "free"]
    /\ BuildFails("hook")
    /\ UNCHANGED <<nhooks, hi, spawned, hstatus, pipe, wend, wrote, rpc, rline, all_lines,
                   recent_lines, recentLock, ringlog, display,
                   pagesLeft, written>>
    /\ UNCHANGED outsideBuild

BuildWritePageSkipsFailure(p, ok) ==
    /\ bpc = "pages"
    /\ p \in pagesLeft
    /\ pagesLeft' = pagesLeft \ {p}
    /\ written' = IF ok THEN Append(written, p) ELSE written
    /\ berr' = IF ok THEN berr ELSE "write"
    /\ UNCHANGED <<bpc, nhooks, hi, spawned, hstatus, pipe, wend, wrote, rpc, rline, all_lines,
                   recent_lines, allLock, recentLock, ringlog, display, reported>>
    /\ UNCHANGED outsideBuild

\* for (page_name, page) in &config.pages: generate_html, then
\* tokio::fs::write(..).await.wrap_err_with(..)?
BuildWritePage(p, ok) ==
    /\ bpc = "pages"
    /\ p \in pagesLeft
    /\ IF ok
       THEN /\ written' = Append(written, p)
            /\ pagesLeft' = pagesLeft \ {p}
            /\ UNCHANGED <<bpc, berr>>
       ELSE /\ BuildFails("write")
            /\ UNCHANGED <<written, pagesLeft>>
    /\ UNCHANGED <<nhooks, hi, spawned, hstatus, pipe, wend, wrote, rpc, rline, all_lines,
                   recent_lines, allLock, recentLock, ringlog, display, reported>>
    /\ UNCHANGED outsideBuild

\* info!("Build complete! ..."); Ok(())
BuildDone ==
    /\ bpc = "pages"
    /\ pagesLeft = {}
    /\ bpc' = "ok"
    /\ UNCHANGED <<nhooks, hi, spawned, hstatus, pipe, wend, wrote, rpc, rline, all_lines,
                   recent_lines, allLock, recentLock, ringlog, display, reported, berr,
                   pagesLeft, written>>
    /\ UNCHANGED outsideBuild

\* main, for Command::Build: build().await, then .unwrap(). Once build has
\* returned, main returns or panics and the process ends, and with it the
\* reader threads, which build never joins, and the read ends of the pipes:
\* what a hook's processes wrote and no reader took is lost. (Called by dev,
\* build returns to a process that goes on running: this step is then never
\* taken.)
CmdBuildEnds ==
    /\ proc = "running" /\ mpc = "cmd_build"
    /\ bpc \in {"ok", "err"}
    /\ mpc' = "returned"
    /\ proc' = ExitWith(bpc = "ok")
    /\ err' = IF bpc = "ok" THEN "none" ELSE "build"
    /\ UNCHANGED <<cmd, max_level, logged, handle, paths, watching, subFailed, wres,
                   chan, debounce_timer, wpc, got, wake, now, nsent, arrivals, nrecv, calls>>
    /\ pipe' = PerStream(<<>>)
    /\ UNCHANGED <<bpc, nhooks, hi, spawned, hstatus, wend, wrote, rpc, rline, all_lines,
                   recent_lines, allLock, recentLock, ringlog, display, reported, berr,
                   pagesLeft, written>>
    /\ UNCHANGED <<htmlVars, pureVars>>

NextBuild ==
    \/ \E ok \in BOOLEAN : BuildLoadConfig(ok)
    \/ \E ok \in BOOLEAN : BuildMkdir(ok)
    \/ BuildNextHook
    \/ \E n \in 0..MaxPages : BuildHooksDone(n)
    \/ \E ok \in BOOLEAN : BuildSpawn(ok)
    \/ \E h \in 1..MaxHooks, s \in Streams, kind \in {"text", "blank", "bad"} :
          ChildWrite(h, s, kind)
    \/ \E h \in 1..MaxHooks, s \in Streams : CloseStream(h, s)
    \/ \E ok \in BOOLEAN : ChildExit(ok)
    \/ \E h \in 1..MaxHooks, s \in Streams : ReaderRead(h, s)
    \/ \E h \in 1..MaxHooks, s \in Streams : ReaderPushAll(h, s)
    \/ \E h \in 1..MaxHooks, s \in Streams : ReaderLockRecent(h, s)
    \/ \E h \in 1..MaxHooks, s \in Streams : ReaderPushRecent(h, s)
    \/ \E ok \in BOOLEAN : BuildWait(ok)
    \/ BuildCheck
    \/ BuildLockAll
    \/ BuildReport
    \/ \E p \in 1..MaxPages, ok \in BOOLEAN : BuildWritePage(p, ok)
    \/ BuildDone
    \/ CmdBuildEnds

SpecBuild == InitBuild /\ [][NextBuild]_vars

\* The steps of a reader thread between reading a line and letting go of it.
ReaderAppends(h, s) == ReaderPushAll(h, s) \/ ReaderLockRecent(h, s) \/ ReaderPushRecent(h, s)

\* The reader threads keep being scheduled for as long as the process runs
\* (their steps are disabled once it has ended), and build, once it holds the
\* all-lines guard for its report, goes on to print it and return. Nothing
\* makes the process outlive build's return.
SpecBuildFair ==
    /\ SpecBuild
    /\ \A h \in 1..MaxHooks : /\ WF_vars(ReaderAppends(h, "out"))
                              /\ WF_vars(ReaderAppends(h, "err"))
    /\ WF_vars(BuildReport)

\* ================================================================= strings
\* A string is the sequence of its characters; offsets count from 0 as in
\* Rust, and s[a..b] is Slice(s, a, b).
Slice(s, a, b) == SubSeq(s, a + 1, b)
SliceFrom(s, a) == SubSeq(s, a + 1, Len(s))

\* s[i..].starts_with(pat)
MatchesAt(s, pat, i) ==
    i + Len(pat) <= Len(s) /\ SubSeq(s, i + 1, i + Len(pat)) = pat

Occurrences(s, pat) == {i \in 0..Len(s) : MatchesAt(s, pat, i)}

\* str::find: the offset of the first occurrence
Find(s, pat) ==
    LET occ == Occurrences(s, pat)
    IN  IF occ = {} THEN None ELSE Some(CHOOSE i \in occ : \A j \in occ : i <= j)

\* str::rfind: the offset of the last occurrence
RFind(s, pat) ==
    LET occ == Occurrences(s, pat)
    IN  IF occ = {} THEN None ELSE Some(CHOOSE i \in occ : \A j \in occ : i >= j)

\* str::contains, str::starts_with, str::ends_with
Contains(s, pat) == Occurrences(s, pat) # {}
StartsWith(s, pat) == MatchesAt(s, pat, 0)
EndsWith(s, pat) == Len(pat) <= Len(s) /\ MatchesAt(s, pat, Len(s) - Len(pat))

\* The characters with the Unicode property White_Space; those TLA+ has no
\* escape for are written as their code points.
WHITE_SPACE ==
    {"\t", "\n", "U+000B", "\f", "\r", " ", "U+0085", "U+00A0", "U+1680",
     "U+2000", "U+2001", "U+2002", "U+2003", "U+2004", "U+2005", "U+2006",
     "U+2007", "U+2008", "U+2009", "U+200A", "U+2028", "U+2029", "U+202F",
     "U+205F", "U+3000"}

\* char::is_whitespace
IsSpace(c) == c \in WHITE_SPACE

\* str::trim
Trim(s) ==
    LET keep == {i \in 1..Len(s) : ~IsSpace(s[i])}
    IN  IF keep = {} THEN <<>>
        ELSE SubSeq(s, CHOOSE i \in keep : \A j \in keep : i <= j,
                       CHOOSE i \in keep : \A j \in keep : i >= j)

\* What a call gives: a value, or a panic of the thread that made it.
Returned(v) == [kind |-> "ok", val |-> v]
Panicked == [kind |-> "panic"]

\* --------------------------------------------- html.rs: extract_body_content
HEAD_OPEN == <<"<", "h", "e", "a", "d">>
HEAD_CLOSE == <<"<", "/", "h", "e", "a", "d", ">">>
BODY_OPEN == <<"<", "b", "o", "d", "y">>
BODY_CLOSE == <<"<", "/", "b", "o", "d", "y", ">">>
GT == <<">">>

\* format!("<body>{}</body>", content)
WrapBody(content) == BODY_OPEN \o GT \o content \o BODY_CLOSE

\* fn extract_body_from_clean_html(html: &str) -> Result<String>
extract_body_from_clean_html(h) ==
    LET body_start == Find(h, BODY_OPEN)
        body_content_start ==
            IF body_start = None THEN None ELSE Find(SliceFrom(h, body_start[1]), GT)
    IN  IF body_start # None /\ body_content_start # None
        THEN LET body_start_pos == body_start[1] + body_content_start[1] + 1
                 body_end == RFind(h, BODY_CLOSE)
             IN  IF body_end # None
                 THEN IF body_start_pos > body_end[1]
                      THEN Panicked  \* html[body_start_pos..body_end], begin > end
                      ELSE Returned(WrapBody(Trim(Slice(h, body_start_pos, body_end[1]))))
                 ELSE Returned(WrapBody(Trim(SliceFrom(h, body_start_pos))))
        ELSE Returned(WrapBody(Trim(h)))

\* fn extract_body_content(html: &str) -> Result<String>
extract_body_content(doc) ==
    LET h == Trim(doc)
        head_start == Find(h, HEAD_OPEN)
        head_end == Find(h, HEAD_CLOSE)
    IN  IF head_start # None /\ head_end # None
        THEN extract_body_from_clean_html(
                 Slice(h, 0, head_start[1]) \o SliceFrom(h, head_end[1] + 7))
        ELSE extract_body_from_clean_html(h)

\* ------------------------------------ html.rs: escape_js, generate_env_object
MaxStr == 4

BACKSLASH == "\\"
QUOTE == "\""

\* str::replace(c, to) for a one-character pattern
RECURSIVE Replace(_, _, _)
Replace(s, c, to) ==
    IF s = <<>> THEN <<>>
    ELSE (IF Head(s) = c THEN to ELSE <<Head(s)>>) \o Replace(Tail(s), c, to)

EscapeJsQuoteFirst(s) ==
    Replace(Replace(Replace(Replace(Replace(s,
        QUOTE, <<BACKSLASH, QUOTE>>),
        BACKSLASH, <<BACKSLASH, BACKSLASH>>),
        "\n", <<BACKSLASH, "n">>),
        "\r", <<BACKSLASH, "r">>),
        "\t", <<BACKSLASH, "t">>)

\* fn escape_js(s: &str) -> String
escape_js(s) ==
    Replace(Replace(Replace(Replace(Replace(s,
        BACKSLASH, <<BACKSLASH, BACKSLASH>>),
        QUOTE, <<BACKSLASH, QUOTE>>),
        "\n", <<BACKSLASH, "n">>),
        "\r", <<BACKSLASH, "r">>),
        "\t", <<BACKSLASH, "t">>)

Spaces(n) == [i \in 1..n |-> " "]

\* format!(r#"            "{}": "{}""#, escape_js(key), escape_js(value))
EnvEntry(e) ==
    Spaces(12) \o <<QUOTE>> \o escape_js(e.key) \o <<QUOTE, ":", " ", QUOTE>>
        \o escape_js(e.value) \o <<QUOTE>>

\* .collect::<Vec<_>>().join(",\n")
RECURSIVE JoinEntries(_)
JoinEntries(es) ==
    IF es = <<>> THEN <<>>
    ELSE IF Len(es) = 1 THEN EnvEntry(es[1])
    ELSE EnvEntry(es[1]) \o <<",", "\n">> \o JoinEntries(Tail(es))

\* fn generate_env_object(env: &HashMap<String, String>) -> String, for the
\* entries of env in the order the map iterates them.
generate_env_object(env) ==
    IF JoinEntries(env) = <<>> THEN <<"{", "}">>
    ELSE <<"{", "\n">> \o JoinEntries(env) \o <<"\n">> \o Spaces(8) \o <<"}">>

\* The characters of environment keys and values.
EnvChars == {BACKSLASH, QUOTE, "\n", "\r", "\t", "n", "a"}

RECURSIVE StringsUpTo(_, _)
StringsUpTo(chars, n) ==
    IF n = 0 THEN {<<>>}
    ELSE LET shorter == StringsUpTo(chars, n - 1)
         IN  shorter \cup {Append(t, c) : t \in shorter, c \in chars}

EnvKeys == {<<"K">>, <<"a", QUOTE, BACKSLASH>>}

InitEnv ==
    /\ IdleDev
    /\ IdleBuild
    /\ IdleHtml
    /\ ppc = "in"
    /\ arg \in {<<>>} \cup
               {<<[key |-> k, value |-> v]>> : k \in EnvKeys, v \in StringsUpTo(EnvChars, MaxStr)}
    /\ ret = <<>>

\* generate_env_object(&config.env)
GenerateEnvObject ==
    /\ ppc = "in"
    /\ ret' = generate_env_object(arg)
    /\ ppc' = "out"
    /\ UNCHANGED arg
    /\ UNCHANGED outsidePure

NextEnv == GenerateEnvObject

SpecEnv == InitEnv /\ [][NextEnv]_vars

\* ------------------------------------- html.rs: glob_match, find_html_files
MaxPat == 3
MaxEntries == 3

STAR == "*"
DOT_HTML == <<".", "h", "t", "m", "l">>
SRC_DIR == <<"s", "r", "c", "/">>

\* str::split(c): the pieces between the occurrences of c
RECURSIVE Split(_, _)
Split(s, c) ==
    LET at == {i \in 1..Len(s) : s[i] = c}
    IN  IF at = {} THEN <<s>>
        ELSE LET k == CHOOSE i \in at : \A j \in at : i <= j
             IN  <<SubSeq(s, 1, k - 1)>> \o Split(SubSeq(s, k + 1, Len(s)), c)

GlobMatchAnyParts(pattern, filename) ==
    IF Contains(pattern, <<STAR>>)
    THEN LET pattern_parts == Split(pattern, STAR)
         IN  StartsWith(filename, pattern_parts[1])
             /\ EndsWith(filename, pattern_parts[Len(pattern_parts)])
    ELSE Contains(filename, pattern)

\* fn glob_match(pattern: &str, filename: &str) -> bool
glob_match(pattern, filename) ==
    IF Contains(pattern, <<STAR>>)
    THEN LET pattern_parts == Split(pattern, STAR)
         IN  IF Len(pattern_parts) = 2
             THEN StartsWith(filename, pattern_parts[1])
                  /\ EndsWith(filename, pattern_parts[2])
             ELSE Contains(filename, pattern)
    ELSE Contains(filename, pattern)

\* The pieces patterns are made of, and the names of the entries of src/.
BLOG == <<"b", "l", "o", "g">>
PatternPieces == {BLOG \o <<"-">>, <<STAR>>, DOT_HTML, <<"1">>, BLOG}

RECURSIVE Concat(_)
Concat(pieces) == IF pieces = <<>> THEN <<>> ELSE Head(pieces) \o Concat(Tail(pieces))

Patterns == {Concat(q) : q \in StringsUpTo(PatternPieces, MaxPat)}

ABOUT == <<"a", "b", "o", "u", "t">>
INDEX == <<"i", "n", "d", "e", "x">>
EntryNames ==
    {BLOG \o <<"-", "1">> \o DOT_HTML,
     BLOG \o DOT_HTML,
     <<"n", "e", "w", "s", "-", "1">> \o DOT_HTML,
     BLOG \o <<"-", "1", ".", "t", "x", "t">>,
     <<"1">> \o DOT_HTML,
     ABOUT \o DOT_HTML}

\* The entries explored as symbolic links whose target is absent.
Danglers == {ABOUT \o DOT_HTML, BLOG \o <<"-", "1">> \o DOT_HTML}

\* src/ as the build finds it: absent ("missing"); present with the
\* permissions to list it and to reach its entries ("ok"), to reach its
\* entries only ("unlistable"), to list it only ("unsearchable"), or neither
\* ("noaccess"); or failing while it is listed ("ioerror"). `dangling` are
\* the entries that are symbolic links to nothing.
SrcDirs ==
    {fs \in {[state |-> "ok", entries |-> e, dangling |-> d] :
                e \in {x \in SUBSET EntryNames : Cardinality(x) <= MaxEntries},
                d \in SUBSET Danglers} : fs.dangling \subseteq fs.entries}
    \cup {[state |-> "missing", entries |-> {}, dangling |-> {}]}
    \cup {[state |-> st, entries |-> e, dangling |-> {}] :
            st \in {"unlistable", "unsearchable", "noaccess", "ioerror"},
            e \in {{}, {ABOUT \o DOT_HTML}}}

\* tokio::fs::read_dir("src").await.is_ok(): src/ exists and may be listed.
ReadDirOk(fs) == fs.state \in {"ok", "unsearchable", "ioerror"}

MetadataAlwaysOk(fs, filename) == TRUE

\* tokio::fs::metadata(&filename).await.is_ok(): src/ may be searched and
\* the name leads to a file (metadata follows symbolic links).
MetadataOk(fs, filename) ==
    /\ fs.state \in {"ok", "unlistable", "ioerror"}
    /\ \E n \in fs.entries \ fs.dangling : filename = SRC_DIR \o n

\* The orders in which a directory listing can give the entries kept.
Orders(S) == {q \in [1..Cardinality(S) -> S] : {q[i] : i \in 1..Cardinality(S)} = S}

Failed(why) == [kind |-> "err", why |-> why]
Found(files, warned) == [kind |-> "ok", val |-> files, warned |-> warned]

InitFind ==
    /\ IdleDev
    /\ IdleBuild
    /\ IdleHtml
    /\ ppc = "in"
    /\ arg \in [page_name : {ABOUT}, pattern : {Some(pt) : pt \in Patterns}, fs : SrcDirs]
               \cup [page_name : {ABOUT, INDEX}, pattern : {None}, fs : SrcDirs]
    /\ ret = <<>>

\* pub async fn find_html_files(page_name: &str, page: &HtmlPage) -> Result<Vec<String>>
FindHtmlFiles ==
    /\ ppc = "in"
    /\ IF arg.pattern # None
       THEN IF ~ReadDirOk(arg.fs)
            THEN ret' = Failed("Failed to read src directory")
            ELSE IF arg.fs.state = "ioerror"
            THEN ret' = Failed("Failed to read directory entry")
            ELSE LET kept == {n \in arg.fs.entries :
                                 EndsWith(n, DOT_HTML) /\ glob_match(arg.pattern[1], n)}
                 IN  \E files \in Orders(kept) :
                         ret' = Found([i \in 1..Len(files) |-> SRC_DIR \o files[i]],
                                      kept = {})
       ELSE LET filename == IF arg.page_name = INDEX
                            THEN SRC_DIR \o INDEX \o DOT_HTML
                            ELSE SRC_DIR \o arg.page_name \o DOT_HTML
            IN  IF MetadataOk(arg.fs, filename)
                THEN ret' = Found(<<filename>>, FALSE)
                ELSE ret' = Found(<<>>, TRUE)
    /\ ppc' = "out"
    /\ UNCHANGED arg
    /\ UNCHANGED outsidePure

NextFind == FindHtmlFiles

SpecFind == InitFind /\ [][NextFind]_vars

\* The source documents: a document is the concatenation of seven parts, each
\* of which may be missing or malformed.
HTML_OPEN == <<"<", "h", "t", "m", "l", ">">>
HTML_CLOSE == <<"<", "/", "h", "t", "m", "l", ">">>

Pres == {<<>>, HTML_OPEN, <<" ">>, BODY_CLOSE}
Heads == {<<>>,
          HEAD_OPEN \o GT \o HEAD_CLOSE,
          HEAD_OPEN \o GT \o <<"t">> \o HEAD_CLOSE,
          HEAD_OPEN \o GT \o BODY_OPEN \o GT \o HEAD_CLOSE,
          HEAD_OPEN \o GT,
          HEAD_CLOSE}
Mids == {<<>>, <<"\n">>}
Opens == {<<>>,
          BODY_OPEN \o GT,
          BODY_OPEN \o <<" ", "c">> \o GT,
          BODY_OPEN \o <<" ", "c", "=", "\"", ">", "\"">> \o GT,
          BODY_OPEN}
Inners == {<<>>, <<"h", "i">>, <<" ", "h", "i", "\n">>, <<"\f", "h", "i", "U+00A0">>,
           <<"h">> \o BODY_CLOSE \o <<"i">>}
Closes == {<<>>, BODY_CLOSE}
Posts == {<<>>, HTML_CLOSE}

Documents ==
    [pre : Pres, head : Heads, mid : Mids, open : Opens, inner : Inners,
     close : Closes, post : Posts]

Doc(d) == d.pre \o d.head \o d.mid \o d.open \o d.inner \o d.close \o d.post

InitBody ==
    /\ IdleDev
    /\ IdleBuild
    /\ IdleHtml
    /\ ppc = "in"
    /\ arg \in Documents
    /\ ret = <<>>

\* let body_content = extract_body_content(&content)
ExtractBody ==
    /\ ppc = "in"
    /\ ret' = extract_body_content(Doc(arg))
    /\ ppc' = "out"
    /\ UNCHANGED arg
    /\ UNCHANGED outsidePure

NextBody == ExtractBody

SpecBody == InitBody /\ [][NextBody]_vars

\* ==================================================================== html
\* The strings a configuration file gives at the top level and in a page
\* entry; the two levels use different non-empty texts so that a rendered
\* value tells where it came from.
DefaultTexts == {"", "site"}
PageTexts == {"", "page"}

Scalars == {"title", "favicon", "author", "description"}

\* fn default_title(), default_favicon(), default_author(), default_description()
SerdeDefault(f) ==
    CASE f = "title" -> "Bageri App"
      [] f = "favicon" -> "favicon.ico"
      [] f = "author" -> "Your Name"
      [] f = "description" -> "Description"

\* #[serde(default = "default_<f>")] pub <f>: String
SerdeField(raw, f) == IF raw[f] = None THEN SerdeDefault(f) ELSE raw[f][1]

\* PageAttributes as serde builds it from the fields present in the file;
\* #[serde(default)] for the two lists.
DeserializeAttributes(raw) ==
    [title |-> SerdeField(raw, "title"),
     favicon |-> SerdeField(raw, "favicon"),
     author |-> SerdeField(raw, "author"),
     description |-> SerdeField(raw, "description"),
     scripts |-> raw.scripts,
     styles |-> raw.styles]

RawAttributes(texts, lists) ==
    [title : {None} \cup {Some(t) : t \in texts},
     favicon : {None} \cup {Some(t) : t \in texts},
     author : {None} \cup {Some(t) : t \in texts},
     description : {None} \cup {Some(t) : t \in texts},
     scripts : lists,
     styles : lists]

InitHtml ==
    /\ IdleDev
    /\ IdleBuild
    /\ IdlePure
    /\ hpc = "raw"
    /\ rawDefaults \in RawAttributes(DefaultTexts, {<<>>, <<"a">>})
    /\ rawPage \in RawAttributes(PageTexts, {<<>>, <<"b", "a">>})
    /\ config = <<>>
    /\ page = <<>>
    /\ html = <<>>

\* serde_json5::from_str: Config { #[serde(flatten)] default_page_attributes, .. }
\* and SpaPage { #[serde(flatten)] attributes }
Deserialize ==
    /\ hpc = "raw"
    /\ config' = DeserializeAttributes(rawDefaults)
    /\ page' = DeserializeAttributes(rawPage)
    /\ hpc' = "parsed"
    /\ UNCHANGED <<rawDefaults, rawPage, html>>
    /\ UNCHANGED outsideHtml

\* let title = if page.attributes.title.is_empty() { default } else { page }
ResolveTitle(p, d) == IF p.title = "" THEN d.title ELSE p.title

OptionalTagPrefersDefault(p, d, f) ==
    IF p[f] # "" \/ d[f] # ""
    THEN Some(IF d[f] # "" THEN d[f] ELSE p[f])
    ELSE None

\* @if !page.<f>.is_empty() || !default.<f>.is_empty() { @let v = if
\* !page.<f>.is_empty() { page } else { default }; <tag with v> }
OptionalTag(p, d, f) ==
    IF p[f] # "" \/ d[f] # ""
    THEN Some(IF p[f] # "" THEN p[f] ELSE d[f])
    ELSE None

\* generate_meta_tags(page_attrs, default_attrs)
generate_meta_tags(p, d) ==
    [author |-> OptionalTag(p, d, "author"),
     description |-> OptionalTag(p, d, "description")]

\* generate_html(config, page): the head of the document.
generate_html(d, p) ==
    [title |-> ResolveTitle(p, d),
     favicon |-> OptionalTag(p, d, "favicon"),
     author |-> generate_meta_tags(p, d).author,
     description |-> generate_meta_tags(p, d).description,
     scripts |-> d.scripts \o p.scripts,
     styles |-> d.styles \o p.styles]

RenderSpa ==
    /\ hpc = "parsed"
    /\ html' = generate_html(config, page)
    /\ hpc' = "rendered"
    /\ UNCHANGED <<rawDefaults, rawPage, config, page>>
    /\ UNCHANGED outsideHtml

\* The source files of static pages: one with an attribute on its body tag,
\* one that is only text, one whose closing body tag comes before the
\* opening one.
StaticSources ==
    {BODY_OPEN \o <<" ", "c">> \o GT \o <<"h", "i">> \o BODY_CLOSE,
     <<"h", "i">>,
     BODY_CLOSE \o BODY_OPEN \o GT}

ProcessHtmlPageScriptsPageFirst(d, p, content) ==
    LET body_content == extract_body_content(content)
    IN  IF body_content.kind = "panic" THEN Panicked
        ELSE Returned([title |-> ResolveTitle(p, d),
                       favicon |-> OptionalTag(p, d, "favicon"),
                       author |-> generate_meta_tags(p, d).author,
                       description |-> generate_meta_tags(p, d).description,
                       scripts |-> p.scripts \o d.scripts,
                       styles |-> <<>>,
                       body |-> body_content.val])

\* process_html_page(config, page, input_file) once the file is read: the
\* head it generates, which has no stylesheet link, and the extracted body.
process_html_page(d, p, content) ==
    LET body_content == extract_body_content(content)
    IN  IF body_content.kind = "panic" THEN Panicked
        ELSE Returned([title |-> ResolveTitle(p, d),
                       favicon |-> OptionalTag(p, d, "favicon"),
                       author |-> generate_meta_tags(p, d).author,
                       description |-> generate_meta_tags(p, d).description,
                       scripts |-> d.scripts \o p.scripts,
                       styles |-> <<>>,
                       body |-> body_content.val])

\* tokio::fs::read_to_string(input_file).await.wrap_err_with(..)?, then the
\* rest of process_html_page.
RenderStatic(ok, content) ==
    /\ hpc = "parsed"
    /\ LET rendered == process_html_page(config, page, content)
       IN  IF ~ok
           THEN hpc' = "failed" /\ html' = html
           ELSE IF rendered.kind = "panic"
                THEN hpc' = "panicked" /\ html' = html
                ELSE hpc' = "static" /\ html' = rendered.val
    /\ UNCHANGED <<rawDefaults, rawPage, config, page>>
    /\ UNCHANGED outsideHtml

NextHtml ==
    \/ Deserialize
    \/ RenderSpa
    \/ \E ok \in BOOLEAN, content \in StaticSources : RenderStatic(ok, content)

SpecHtml == InitHtml /\ [][NextHtml]_vars

\* ------------------------------------------------------------ claims (dev)
LoopAlive == wpc \in {"recv", "handle", "sleep"}

\* The events the callback invocation c is for: those received since the
\* previous invocation.
FirstEvOf(c) == IF c = 1 THEN 1 ELSE calls[c - 1].nev + 1
LastEvOf(c) == calls[c].nev

\* C1: a burst of events, each less than 500 ms after the previous one, gets
\* exactly one on_change invocation, no earlier than 500 ms after its last
\* event. Every invocation is for at least one event received since the
\* previous invocation, comes at least 500 ms after the last event it is for,
\* and never separates two events less than 500 ms apart (so a burst lies
\* within the events of one invocation); and once the loop has cleared the
\* timer with nothing left to receive, the last invocation is for the last
\* event delivered.
C1_BurstInvokedOnce ==
    /\ \A c \in 1..Len(calls) :
         /\ FirstEvOf(c) <= LastEvOf(c)
         /\ LastEvOf(c) <= Len(arrivals)
         /\ calls[c].t >= arrivals[LastEvOf(c)] + DEBOUNCE_MS
         /\ LastEvOf(c) < Len(arrivals)
              => arrivals[LastEvOf(c) + 1] - arrivals[LastEvOf(c)] >= DEBOUNCE_MS
    /\ (LoopAlive /\ debounce_timer = None /\ got # "ev" /\ arrivals # <<>>
          /\ \A i \in 1..Len(chan) : chan[i] # "ev")
         => /\ calls # <<>>
            /\ calls[Len(calls)].nev = Len(arrivals)

\* A burst of two events at different times, 500 ms or less apart, has had its
\* single invocation.
C1_Witness ==
    /\ Len(arrivals) = 2 /\ arrivals[2] > arrivals[1]
    /\ arrivals[2] - arrivals[1] < DEBOUNCE_MS
    /\ Len(calls) = 1 /\ calls[1].nev = 2
    /\ debounce_timer = None /\ wpc = "sleep"

\* C4 (as stated): at every moment at most one rebuild started by on_change is
\* running.
C4_RebuildsNeverOverlap == Cardinality(Running) <= 1

\* C4 (amended): consecutive on_change invocations are more than 500 ms apart,
\* so two rebuilds run at the same time only when the older one has been
\* running for more than 500 ms.
C4_OverlapOnlyAfterDebounceWindow ==
    \A j, k \in 1..Len(calls) :
        j < k =>
          /\ calls[k].t - calls[j].t > DEBOUNCE_MS
          /\ (j \in Running /\ k \in Running) => now - calls[j].t > DEBOUNCE_MS

\* A second rebuild has started after the first one ended.
C4_Witness ==
    /\ Len(calls) = 2
    /\ calls[1].st # "running"
    /\ calls[2].st = "running"

\* C5 (as stated): in dev mode the process never exits because a build failed,
\* the initial build included.
C5_DevNeverExitsOnBuildFailure ==
    ~(cmd = "dev" /\ proc = "exit_err" /\ err \in {"initial_build", "rebuild"})

RebuildFails == \E k \in Running : calls'[k].st = "err"

\* C5 (amended): the failure of a watcher-triggered rebuild is logged and
\* leaves the process, the dev task and the debounce loop running; the failure
\* of the initial build makes dev return the error before any watcher exists,
\* and the process ends with it, as for the one-shot build command.
C5_OnlyRebuildFailureIsSurvived ==
    /\ [][RebuildFails => /\ proc' = "running"
                          /\ mpc' = mpc /\ wpc' = wpc /\ handle' = handle
                          /\ "Rebuild failed" \in logged']_vars
    /\ [](cmd = "dev" /\ proc = "exit_err"
            => err \in {"config", "initial_build", "watcher", "bind", "serve"})
    /\ [](err = "initial_build"
            => /\ cmd = "dev" /\ mpc \in {"returned_err", "returned"}
               /\ wres = "none" /\ wpc = "none" /\ calls = <<>>
               /\ mpc = "returned" => proc = "exit_err")
    /\ [](err = "build" => cmd = "build" /\ proc = "exit_err")

\* A rebuild has failed and dev is still serving with the loop alive.
C5_Witness ==
    /\ \E k \in 1..Len(calls) : calls[k].st = "err"
    /\ "Rebuild failed" \in logged
    /\ proc = "running" /\ mpc = "serving" /\ LoopAlive

\* C6: when subscribing to one resolved path fails, watch_files still returns
\* the watcher handle and the debounce loop is started.
C6_UnwatchablePathTolerated ==
    subFailed => /\ wres # "err"
                 /\ err # "watcher"
                 /\ wres = "ok" => wpc # "none"

LoopHandlesError == wpc = "handle" /\ got = "err" /\ got' = "none" /\ proc' = "running"

\* C7: handling an error item leaves the loop running, the debounce timestamp
\* unchanged and on_change not invoked; the loop ends only on a disconnected
\* (and drained) channel.
C7_ErrorItemKeepsLoop ==
    /\ [][LoopHandlesError => /\ wpc' = "recv"
                              /\ debounce_timer' = debounce_timer
                              /\ calls' = calls]_vars
    /\ [][(wpc # "done" /\ wpc' = "done")
            => got = "disc" /\ handle = "dropped" /\ chan = <<>>]_vars
    /\ [](nrecv = 0 => calls = <<>> /\ (LoopAlive => debounce_timer = None))

\* An error item has been handled, with no event ever received: the loop is
\* asleep with no timestamp.
C7_Witness ==
    /\ "Watch error" \in logged
    /\ nrecv = 0 /\ wpc = "sleep" /\ debounce_timer = None /\ calls = <<>>

\* ---------------------------------------------------------- claims (build)
Min(a, b) == IF a < b THEN a ELSE b

\* The last n entries of q (all of q when it has fewer).
LastN(q, n) == SubSeq(q, Len(q) - Min(n, Len(q)) + 1, Len(q))

\* C2: pre-hooks are spawned one at a time in configured order, hook k+1 only
\* after hook k has exited with success; after a hook has exited with a
\* failure no later hook is spawned and build does not go on to the pages nor
\* return Ok.
C2_HooksSequential ==
    /\ spawned = [i \in 1..Len(spawned) |-> i]
    /\ Len(spawned) <= nhooks
    /\ Cardinality({h \in Hooks : hstatus[h] = "running"}) <= 1
    /\ \A i \in 1..Len(spawned) : i < Len(spawned) => hstatus[i] = "ok"
    /\ \A h \in Hooks :
         hstatus[h] = "fail" => /\ Len(spawned) = h
                                /\ bpc \in {"wait", "check", "lock", "report", "err"}

\* The second of two hooks was spawned after the first succeeded, has failed,
\* and build has returned the hook error.
C2_Witness ==
    /\ spawned = <<1, 2>>
    /\ hstatus[1] = "ok" /\ hstatus[2] = "fail"
    /\ bpc = "err" /\ berr = "hook"

\* C3: when build inspects a hook's exit status both reader threads have
\* drained their streams and ended, so the report of a failed hook holds every
\* non-empty line the hook wrote.
C3_ReadersDoneBeforeStatus ==
    /\ bpc \in {"check", "lock", "report"} => \A s \in Streams : rpc[hi][s] = "done"
    /\ reported # None =>
         \A s \in Streams : \A i \in 1..Len(wrote[hi][s]) :
             \E j \in 1..Len(reported[1].lines) : reported[1].lines[j] = wrote[hi][s][i]

\* A reader of hook h is between its eviction and its append.
RingHeld(h) == \E s \in Streams : rpc[h][s] = "push_recent"

\* C8: the ring buffer never holds more than 5 lines, under any interleaving
\* of the two readers; a reader about to append has made room by evicting the
\* oldest line only (the buffer is the last 5 lines pushed, the last 4 between
\* an eviction and the append); a progress display never shows more than 5.
C8_RingBounded ==
    \A h \in Hooks :
        /\ Len(recent_lines[h]) <= RECENT_CAP
        /\ Len(display[h]) <= RECENT_CAP
        /\ RingHeld(h) => recent_lines[h] = LastN(ringlog[h], RECENT_CAP - 1)
        /\ ~RingHeld(h) => recent_lines[h] = LastN(ringlog[h], RECENT_CAP)

\* Six lines from both streams have been pushed: the first was evicted.
C8_Witness ==
    /\ nhooks = 1
    /\ Len(ringlog[1]) = RECENT_CAP + 1
    /\ Len(recent_lines[1]) = RECENT_CAP
    /\ recent_lines[1][1] = ringlog[1][2]
    /\ Len(display[1]) = RECENT_CAP
    /\ \E i, j \in 1..Len(ringlog[1]) : ringlog[1][i].src # ringlog[1][j].src

\* C9: whenever neither reader is between its append to the all-lines log and
\* its append to the ring buffer, the ring buffer is the last min(5, n)
\* entries of the all-lines log, in the same order.
C9_RingIsTailOfLog ==
    \A h \in Hooks :
        (\A s \in Streams : rpc[h][s] \notin {"lock_recent", "push_recent"})
            => recent_lines[h] = LastN(all_lines[h], RECENT_CAP)

\* ----------------------------------------------------------- claims (html)
\* The value of scalar attribute f in the rendered head ("" when its tag is
\* not emitted).
Rendered(f) ==
    IF f = "title" THEN html.title
    ELSE IF html[f] = None THEN "" ELSE html[f][1]

\* C10: for a page whose entry does not give a scalar attribute, the rendered
\* page uses the configuration's default-level value of that attribute.
C10_OmittedAttributeUsesDefaultLevel ==
    hpc = "rendered" =>
        \A f \in Scalars : rawPage[f] = None => Rendered(f) = config[f]

\* ----------------------------------------------------------- claims (body)
\* A document with a head block, then an opening body tag, then the closing
\* tag, and nothing else that looks like one of them outside the body.
HeadThenBody(d) ==
    /\ d.pre \in {<<>>, HTML_OPEN, <<" ">>}
    /\ StartsWith(d.head, HEAD_OPEN) /\ EndsWith(d.head, HEAD_CLOSE)
    /\ StartsWith(d.open, BODY_OPEN) /\ EndsWith(d.open, GT)
    /\ d.close = BODY_CLOSE

\* C13: for a document with a <head>..</head> block followed by an opening
\* <body ..> tag and a closing </body>, extract_body_content returns "<body>",
\* the trimmed text between the opening tag and the last </body>, "</body>":
\* nothing of the head and no attribute of the body tag.
C13_BodyExtracted ==
    (ppc = "out" /\ HeadThenBody(arg)) =>
        ret = Returned(WrapBody(Trim(arg.inner)))

\* ------------------------------------------------- claims (render variants)
\* C11: the static render emits a stylesheet link for every effective style,
\* default-level styles then page-level styles, as the SPA render does.
C11_StaticRenderEmitsStyles ==
    hpc = "static" => html.styles = generate_html(config, page).styles

\* C15: in both render variants the script tags are the default-level script
\* list followed by the page-level script list, each in declared order, with
\* nothing removed and nothing reordered.
C15_ScriptsDefaultsThenPage ==
    hpc \in {"rendered", "static"} =>
        /\ Len(html.scripts) = Len(rawDefaults.scripts) + Len(rawPage.scripts)
        /\ \A i \in 1..Len(rawDefaults.scripts) : html.scripts[i] = rawDefaults.scripts[i]
        /\ \A i \in 1..Len(rawPage.scripts) :
               html.scripts[Len(rawDefaults.scripts) + i] = rawPage.scripts[i]

\* Defaults [a] and page [b, a] were rendered by the static variant: a, b, a.
C15_Witness ==
    /\ hpc = "static"
    /\ rawDefaults.scripts = <<"a">>
    /\ rawPage.scripts = <<"b", "a">>
    /\ html.scripts = <<"a", "b", "a">>

\* The value of scalar attribute f that the render functions are given
\* resolves to: the page's when not empty, else the default level's.
Resolved(f) == IF page[f] # "" THEN page[f] ELSE config[f]

\* C16: for title, favicon, author and description, in both variants, the
\* rendered value is the page-level value when it is not empty and the
\* default-level value otherwise; the favicon, author and description tags
\* are emitted exactly when the resolved value is not empty.
C16_ScalarResolution ==
    hpc \in {"rendered", "static"} =>
        /\ html.title = Resolved("title")
        /\ \A f \in Scalars \ {"title"} :
               /\ (html[f] # None) <=> (Resolved(f) # "")
               /\ html[f] # None => html[f][1] = Resolved(f)

\* A static render where the page gives an empty title and its own author,
\* and neither level gives a favicon.
C16_Witness ==
    /\ hpc = "static"
    /\ page.title = "" /\ config.title = "site" /\ html.title = "site"
    /\ page.author = "page" /\ config.author = "site" /\ html.author = Some("page")
    /\ page.favicon = "" /\ config.favicon = "" /\ html.favicon = None

\* ------------------------------------------------------------ claims (env)
\* The character an escape sequence \c of a JavaScript string literal stands for.
Unescaped(c) ==
    CASE c = "n" -> "\n"
      [] c = "r" -> "\r"
      [] c = "t" -> "\t"
      [] OTHER -> c

\* Reads t from offset i as the inside of a double-quoted JavaScript string
\* literal up to its closing quote: the string it denotes, the offset after
\* the closing quote, and whether a quote, newline, carriage return or tab
\* stood outside an escape sequence before that. ok is FALSE when the literal
\* is not closed or holds a raw line terminator.
RECURSIVE ReadLiteral(_, _, _)
ReadLiteral(t, i, acc) ==
    IF i >= Len(t) THEN [ok |-> FALSE, val |-> acc, next |-> i, raw |-> FALSE]
    ELSE LET c == t[i + 1]
         IN  IF c = QUOTE THEN [ok |-> TRUE, val |-> acc, next |-> i + 1, raw |-> FALSE]
             ELSE IF c \in {"\n", "\r"}
                  THEN [ok |-> FALSE, val |-> acc, next |-> i, raw |-> TRUE]
             ELSE IF c = BACKSLASH
                  THEN IF i + 1 >= Len(t)
                       THEN [ok |-> FALSE, val |-> acc, next |-> i, raw |-> FALSE]
                       ELSE ReadLiteral(t, i + 2, Append(acc, Unescaped(t[i + 2])))
             ELSE LET rest == ReadLiteral(t, i + 1, Append(acc, c))
                  IN  [rest EXCEPT !.raw = @ \/ c = "\t"]

\* The generated object read back: after "{", newline and 12 spaces, a
\* literal, ": ", a literal, then the closing newline, 8 spaces and "}".
ReadKey == ReadLiteral(ret, 2 + 12 + 1, <<>>)
ReadValue == ReadLiteral(ret, ReadKey.next + 3, <<>>)

\* C12: for a key or value made of backslash, double quote, newline, carriage
\* return, tab and ordinary characters, the escaped text has no double quote,
\* newline, carriage return or tab outside an escape sequence, and read back
\* as a double-quoted JavaScript string literal it gives the original string.
C12_EscapeRoundTrip ==
    (ppc = "out" /\ arg # <<>>) =>
        /\ ReadKey.ok /\ ~ReadKey.raw /\ ReadKey.val = arg[1].key
        /\ SubSeq(ret, ReadKey.next + 1, ReadKey.next + 3) = <<":", " ", QUOTE>>
        /\ ReadValue.ok /\ ~ReadValue.raw /\ ReadValue.val = arg[1].value
        /\ SliceFrom(ret, ReadValue.next) = <<"\n">> \o Spaces(8) \o <<"}">>

\* A value holding a backslash before an n, a quote and a tab was escaped.
C12_Witness ==
    /\ ppc = "out"
    /\ arg # <<>>
    /\ arg[1].value = <<BACKSLASH, "n", QUOTE, "\t">>
    /\ ReadValue.val = arg[1].value

\* ----------------------------------------------------------- claims (find)
Stars(pt) == {i \in 1..Len(pt) : pt[i] = STAR}

Begins(n, t) == Len(t) <= Len(n) /\ SubSeq(n, 1, Len(t)) = t
Ends(n, t) == Len(t) <= Len(n) /\ SubSeq(n, Len(n) - Len(t) + 1, Len(n)) = t
Within(n, t) == \E i \in 1..(Len(n) + 1) : i + Len(t) - 1 <= Len(n) /\ SubSeq(n, i, i + Len(t) - 1) = t

\* Whether the entry named n is to be kept for pattern pt.
ToKeep(pt, n) ==
    /\ Ends(n, DOT_HTML)
    /\ IF Cardinality(Stars(pt)) = 1
       THEN LET k == CHOOSE i \in Stars(pt) : TRUE
            IN  Begins(n, SubSeq(pt, 1, k - 1)) /\ Ends(n, SubSeq(pt, k + 1, Len(pt)))
       ELSE Within(n, pt)

ReturnedFiles == {ret.val[i] : i \in 1..Len(ret.val)}

BLOG_STAR_HTML == BLOG \o <<"-", STAR>> \o DOT_HTML

\* C14: for a pattern with exactly one '*', find_html_files keeps an entry
\* exactly when its name ends in .html, starts with the text before the '*'
\* and ends with the text after it; for a pattern with no '*' or several, it
\* keeps an entry exactly when the name ends in .html and contains the whole
\* pattern. blog-*.html keeps blog-1.html, not blog.html, not news-1.html.
C14_PatternKeepsEntries ==
    (ppc = "out" /\ arg.pattern # None /\ arg.fs.state \in {"ok", "unsearchable"}) =>
        /\ ret.kind = "ok"
        /\ ReturnedFiles = {SRC_DIR \o n : n \in {e \in arg.fs.entries : ToKeep(arg.pattern[1], e)}}
        /\ Len(ret.val) = Cardinality(ReturnedFiles)
        /\ arg.pattern[1] = BLOG_STAR_HTML =>
               ReturnedFiles = {SRC_DIR \o n : n \in arg.fs.entries \cap {BLOG \o <<"-", "1">> \o DOT_HTML}}

\* src/ holds blog-1.html, blog.html and news-1.html, and blog-*.html kept
\* the first one only.
C14_Witness ==
    /\ ppc = "out"
    /\ arg.pattern = Some(BLOG_STAR_HTML)
    /\ arg.fs.state = "ok"
    /\ arg.fs.entries = {BLOG \o <<"-", "1">> \o DOT_HTML, BLOG \o DOT_HTML,
                         <<"n", "e", "w", "s", "-", "1">> \o DOT_HTML}
    /\ ret.val = <<SRC_DIR \o BLOG \o <<"-", "1">> \o DOT_HTML>>

\* The page's source is missing: without a pattern, src/ has no file
\* <name>.html (no entry, or a link to nothing); with one, no entry of src/
\* is to be kept.
SourceMissing ==
    IF arg.pattern = None
    THEN (arg.page_name \o DOT_HTML) \notin arg.fs.entries \ arg.fs.dangling
    ELSE \A n \in arg.fs.entries : ~ToKeep(arg.pattern[1], n)

\* C17: find_html_files never fails for a missing page source: it returns an
\* empty list as a success, with a warning.
C17_MissingSourceNeverFails ==
    (ppc = "out" /\ SourceMissing) => ret = Found(<<>>, TRUE)

\* C17 as it holds: a missing source gives the empty list and a warning when
\* the page has no pattern, and when it has one and src/ can be listed; with
\* a pattern and a src/ that cannot be listed the call returns the error.
C17_MissingSourceFailsOnlyWhenSrcUnlistable ==
    (ppc = "out" /\ SourceMissing) =>
        /\ (arg.pattern = None \/ arg.fs.state \in {"ok", "unsearchable"}) =>
               ret = Found(<<>>, TRUE)
        /\ (arg.pattern # None /\ arg.fs.state \in {"missing", "unlistable", "noaccess"}) =>
               ret = Failed("Failed to read src directory")
        /\ (arg.pattern # None /\ arg.fs.state = "ioerror") =>
               ret = Failed("Failed to read directory entry")

\* src/ holds only blog.html, and blog-*.html found nothing.
C17_Witness ==
    /\ ppc = "out"
    /\ arg.pattern = Some(BLOG_STAR_HTML)
    /\ arg.fs.state = "ok"
    /\ arg.fs.entries = {BLOG \o DOT_HTML}
    /\ SourceMissing
    /\ ret = Found(<<>>, TRUE)

\* ------------------------------------------------------ claims (poll tick)
\* The loop handles an empty channel: one poll tick.
PollTick == wpc = "handle" /\ got = "empty" /\ wpc' = "sleep"

Invoked == Len(calls') = Len(calls) + 1 /\ SubSeq(calls', 1, Len(calls)) = calls

\* The elapsed time can read more than ms, can read ms or less.
CanReadOver(ms) == debounce_timer # None /\ \E e \in Elapsed(debounce_timer) : e > ms
CanReadUpTo(ms) == debounce_timer # None /\ \E e \in Elapsed(debounce_timer) : e <= ms

\* C19 (as stated): on a poll tick with an empty channel, on_change is invoked
\* if and only if a last-event time is set and at least 500 ms have elapsed
\* since it, exactly 500 ms included.
C19_PollFiresAtLeast500 ==
    [][PollTick =>
          (calls' # calls <=>
              (debounce_timer # None /\ ~CanReadUpTo(DEBOUNCE_MS - 1)))]_vars

\* C19 (amended): on a poll tick with an empty channel, on_change is invoked
\* if and only if a last-event time is set and timer.elapsed() reads more than
\* 500 ms (a reading of exactly 500 ms does not invoke it); when it is
\* invoked, it is invoked once and the recorded time is cleared in the same
\* step, and otherwise the recorded time is kept.
C19_PollFiresAfterMoreThan500 ==
    [][PollTick =>
          /\ calls' # calls => CanReadOver(DEBOUNCE_MS)
          /\ calls' = calls => (debounce_timer = None \/ CanReadUpTo(DEBOUNCE_MS))
          /\ calls' # calls => Invoked /\ debounce_timer' = None
          /\ calls' = calls => debounce_timer' = debounce_timer]_vars

\* The loop has just polled exactly 500 ms after the last event and kept the
\* recorded time: no invocation yet.
C19_Witness ==
    /\ wpc = "sleep" /\ wake = now + POLL_MS
    /\ debounce_timer # None /\ now - debounce_timer[1] = DEBOUNCE_MS
    /\ nrecv = 1 /\ calls = <<>>

\* ------------------------------------------------------- claims (liveness)
\* Event e has had an on_change invocation after it.
Covered(e) == \E c \in 1..Len(calls) : calls[c].nev >= e

\* The watcher handle is dropped or the process has ended.
WatcherGone == handle # "held" \/ proc # "running"

\* Every event delivered after the invocation of a rebuild that failed has had
\* an invocation.
LaterEventsCovered ==
    \A c \in 1..Len(calls) :
        calls[c].st = "err" =>
            \A e \in 1..Len(arrivals) : e > calls[c].nev => Covered(e)

\* A rebuild started by on_change never ends (its hook hangs).
SomeRebuildNeverEnds == <>[](Running # {})

\* The failure of a rebuild leaves the process, the loop, its timestamp and
\* the channel as they were.
FailureChangesNothing ==
    [][RebuildFails => /\ proc' = "running"
                       /\ LoopAlive => LoopAlive'
                       /\ debounce_timer' = debounce_timer /\ chan' = chan]_vars

Polled == wpc = "recv" /\ wpc' = "handle"

C25_InvocationNeedsNewEvent ==
    /\ [](Len(calls) <= nrecv)
    /\ [](nrecv = 0 => calls = <<>>)
    /\ [][Invoked => /\ debounce_timer # None
                     /\ debounce_timer' = None
                     /\ nrecv > (IF calls = <<>> THEN 0 ELSE calls[Len(calls)].nev)]_vars

\* Two events, each with its own invocation.
C25_Witness ==
    /\ nrecv = 2
    /\ Len(calls) = 2
    /\ calls[1].nev = 1
    /\ calls[2].nev = 2
    /\ debounce_timer = None

\* ---------------------------------------------------- hooks before pages
HookErrors == {"spawn", "wait", "hook"}

AllHooksSucceeded == Len(spawned) = nhooks /\ \A h \in Hooks : hstatus[h] = "ok"

\* C22: build renders and writes pages only after every configured hook has
\* been spawned and has exited with success; when a hook fails (it cannot be
\* spawned, or exits with a failure status) build returns the error having
\* written no page, and writes none afterwards.
C22_NoPageAfterHookFailure ==
    /\ [](bpc = "pages" => AllHooksSucceeded)
    /\ [](written # <<>> => AllHooksSucceeded)
    /\ [](berr \in HookErrors => bpc = "err" /\ written = <<>> /\ pagesLeft = {})
    /\ [][written' # written => AllHooksSucceeded /\ berr = "none"]_vars
    /\ [][(berr \in HookErrors) => written' = written /\ bpc' = "err"]_vars

\* The first of two hooks succeeded, the second could not be spawned: build
\* has returned the spawn error with no page written.
C22_Witness ==
    /\ nhooks = 2
    /\ spawned = <<1>>
    /\ hstatus[1] = "ok" /\ hstatus[2] = "none"
    /\ bpc = "err" /\ berr = "spawn"
    /\ written = <<>>

\* -------------------------------------------------- a failing page write
\* tokio::fs::write returns an Err.
WriteFails == berr = "none" /\ berr' = "write"

\* C23: when the write of a page's output file fails, build returns the error
\* at once: the files written for earlier pages are left as they are, and no
\* further page is written.
C23_WriteFailureStopsBuild ==
    /\ [][WriteFails => /\ bpc = "pages" /\ bpc' = "err"
                        /\ written' = written
                        /\ pagesLeft' = pagesLeft /\ pagesLeft # {}]_vars
    /\ [][(berr = "write") => /\ written' = written
                              /\ bpc' = "err"
                              /\ berr' = "write"]_vars
    /\ [](berr = "write" => /\ bpc = "err"
                            /\ \A i \in 1..Len(written) : written[i] \notin pagesLeft)

\* The first page was written, the write of the second failed.
C23_Witness ==
    /\ berr = "write"
    /\ bpc = "err"
    /\ Len(written) = 1
    /\ pagesLeft # {}

\* ------------------------------------------------ the raw captured output
\* C24: the report of a hook that exited with a failure status carries the
\* raw bytes of each stream the hook wrote to.
C24_ReportCarriesRawOutput ==
    reported # None =>
        \A s \in Streams : wrote[hi][s] # <<>> => s \in reported[1].raw

\* ---------------------------------------------------------- the two locks
\* The threads that use the locks of hook h: its two readers and build.
Threads == Streams \cup {"build"}

\* The locks of hook h a thread holds, and the one it is waiting for.
Holds(h, who) ==
    {l \in {"all", "recent"} : (IF l = "all" THEN allLock[h] ELSE recentLock[h]) = who}

WaitsFor(h, who) ==
    IF who = "build"
    THEN (IF bpc = "lock" /\ hi = h THEN {"all"} ELSE {})
    ELSE IF rpc[h][who] = "push_all" THEN {"all"}
    ELSE IF rpc[h][who] = "lock_recent" THEN {"recent"}
    ELSE {}

\* The reader of stream s of hook h lets go of its line.
Released(h, s) == rline[h][s] # None /\ rline'[h][s] = None

\* Neither reader thread nor build waits for one of the two locks while it
\* holds the other, build never takes the ring-buffer lock, and each lock has
\* one holder at a time; a reader that has read a non-empty line lets go of it
\* only once it is in the all-lines log and in the ring buffer's history.
LocksNeverNested ==
    /\ [](\A h \in Hooks, who \in Threads : WaitsFor(h, who) # {} => Holds(h, who) = {})
    /\ [](\A h \in Hooks : recentLock[h] # "build" /\ \A s \in Streams : allLock[h] # s)
    /\ [](\A h \in Hooks, s \in Streams : recentLock[h] = s <=> rpc[h][s] = "push_recent")
    /\ [][\A h \in Hooks, s \in Streams :
            Released(h, s) =>
                /\ \E i \in 1..Len(all_lines'[h]) : all_lines'[h][i] = rline[h][s][1]
                /\ ringlog'[h] # <<>>
                /\ ringlog'[h][Len(ringlog'[h])] = rline[h][s][1]]_vars

C27_ExtractBodyNeverAborts ==
    ppc = "out" =>
        /\ ret # Panicked
        /\ ret.kind = "ok"
        /\ StartsWith(ret.val, BODY_OPEN \o GT)
        /\ EndsWith(ret.val, BODY_CLOSE)
====
